---- MODULE Spec2Model ----
(***************************************************************************)
(* Model of the notifications service (src/notifications_server.py):       *)
(* the subscribe / unsubscribe handlers, the MongoDB transaction they run  *)
(* and the RabbitMQ queue declarations and bindings they make.             *)
(*                                                                         *)
(* Every request is served by its own coroutine; a coroutine can be        *)
(* suspended at each await, so one action models the code between two      *)
(* awaits (the awaited call included).                                     *)
(***************************************************************************)
EXTENDS Integers, Sequences, FiniteSets, TLC

\* ------------------------------------------------------------------ bounds
\* Number of requests served in one behaviour.
MaxOps == 2

\* Concurrent request coroutines, user ids (the userid header) and topics
\* (the {topic} path segment).
Callers == {"c1", "c2"}
UserIds == {"u1", "u2"}
KnownUsers == {"u1"}
Topics == {"weather", "sports"}

\* userid: str = Header(None): the value of the parameter when the request
\* carries no userid header.
None == "<None>"

\* The values the userid parameter of a route can have: the user ids, the
\* text None (a user id like any other) and no header.
HeaderValues == UserIds \cup {"None", None}

\* ------------------------------------------------------------- pure helpers
Range(s) == {s[i] : i \in 1..Len(s)}

Count(s, x) == Cardinality({i \in 1..Len(s) : s[i] = x})

RECURSIVE SumOcc(_, _)
\* Occurrences of topic t over a sequence of documents.
SumOcc(ds, t) ==
    IF ds = <<>> THEN 0 ELSE Count(Head(ds).subs, t) + SumOcc(Tail(ds), t)

\* A value as an f-string renders it: None is rendered as the text None.
FormatValue(v) == IF v = None THEN "None" ELSE v

\* f"queue_{userid}"
queue_name(userid) == <<"queue_", FormatValue(userid)>>

\* f"{topic}"
routing_key(topic) == topic

\* The routing key of broadcast_message.
RABBITMQ_BROADCAST_KEY == "global-broadcast"

\* The routing keys the service binds or publishes with.
\* The topic of a route is any string of the path: the words the exchange
\* reads as wildcards and the broadcast key can be asked for as topics too.
AnyTopics == Topics \cup {"*", "#", RABBITMQ_BROADCAST_KEY}

RoutingKeys == {routing_key(t) : t \in AnyTopics} \cup {RABBITMQ_BROADCAST_KEY}

QueueNames == {queue_name(u) : u \in HeaderValues}

\* The `add` parameter of subscription_transaction as set by the two routes.
add_subscription == "add"
delete_subscription == "delete"
Ops == {add_subscription, delete_subscription}

\* The graph service: its clients, and the labels, names, relationship types
\* and property updates they send.
GraphCallers == {"g1", "g2"}
GraphLabels == {"Requirement", "Requirement_Specification", "Requirement Specification"}
GraphNames == <<"a", "b">>
GraphTypes == {"child", "contains"}
GraphUpdates == {<<"uuid", "x">>, <<"mass", "5">>, <<"mass", None>>}

\* ------------------------------------------------------------------- state
VARIABLES
    docs,       \* committed collection: userid -> documents, in insertion order
    queues,     \* queues declared on the broker
    bindings,   \* <<queue, routing key>> -> number of bindings on the exchange
    pc,         \* caller -> position of its coroutine
    req,        \* caller -> the request it serves
    txn,        \* caller -> uncommitted write of its open transaction
    modified,   \* caller -> update_result.modified_count
    exc,        \* caller -> text of the exception being propagated
    resp,       \* caller -> the HTTP response of its last request
    pre,        \* caller -> view of (userid, topic) when the request arrived
    after,      \* caller -> who had answered last when the request arrived
    overlap,    \* caller -> its last request ran while another was in flight
    lastDone,   \* the caller that was answered last
    failed,     \* caller -> the call of its request that failed, if one did
    commitFailed, \* some transaction's commit has failed
    nreq,       \* requests received
    cdLog,      \* calls of change_detection_subscriptions.add_subscription
    published,  \* messages the exchange has accepted, oldest first
    queued,     \* queue -> routing keys of the messages routed to it
    msgResp,    \* the HTTP response of the last publish or broadcast
    getResp,    \* the answer of the last get_subscriptions
    session,    \* caller -> the transaction of its request, how it ended and
                \* the calls the request has made inside it
    boot,       \* the application's startup and the topic exchange
    routed,     \* the last message accepted and where the exchange routed it
    graph,      \* the nodes and relationships in the graph database
    gcall       \* graph caller -> its request to the graph service and the answer

vars == <<docs, queues, bindings, pc, req, txn, modified, exc, resp, pre, after,
          overlap, lastDone, failed, commitFailed, nreq, cdLog, published,
          queued, msgResp, getResp, session, boot, routed, graph, gcall>>

\* What the subscribe and unsubscribe routes never touch.
others == <<cdLog, published, queued, msgResp, getResp, boot, routed, graph,
          gcall>>

NoReq == [op |-> "none", userid |-> "", topic |-> ""]
NoTxn == [kind |-> "none", doc |-> [has |-> FALSE, subs |-> <<>>]]
NoResp == [status |-> 0, body |-> <<>>]
NoView == [rec |-> 0, listed |-> FALSE, occ |-> 0, topics |-> 0, bound |-> 0,
           queue |-> FALSE]
Nobody == "nobody"
\* Two nodes made by create_node before the requests that are looked at:
\* uuid.uuid4() is a fresh value each time, here the next number.
CreatedGraph ==
    [nodes |-> {[id |-> i, label |-> "Requirement", name |-> GraphNames[i],
                 uuid |-> i, assigned |-> i, mass |-> None] : i \in 1..2},
     rels |-> {},
     next |-> 2]
NoCall == [pc |-> "idle", route |-> "", label |-> "", name |-> "",
           target_label |-> "", target_name |-> "", type |-> "", key |-> "",
           status |-> 0, queries |-> 0]
NoRouted == [key |-> "", to |-> {}, subscribers |-> {}, settled |-> FALSE]
Started == [app |-> "serving", exchange |-> TRUE, raised |-> "none"]
NoSession == [state |-> "none", commits |-> 0, aborts |-> 0, update_one |-> 0,
              declare_queue |-> 0, binding |-> 0, succeeded |-> 0]
NoGet == [userid |-> "", status |-> 0, json |-> "none", topics |-> <<>>,
          raised |-> "none", read |-> <<>>]

\* What a find({"userid": userid}) returns first.
FirstDoc(userid) == docs[userid][1]

\* The topic is in the user's committed subscriptions array.
Listed(userid, topic) ==
    /\ docs[userid] # <<>>
    /\ topic \in Range(FirstDoc(userid).subs)

\* The registry and the broker as seen for one (userid, topic).
View(userid, topic) ==
    [rec    |-> Len(docs[userid]),
     listed |-> Listed(userid, topic),
     occ    |-> SumOcc(docs[userid], topic),
     topics |-> IF docs[userid] = <<>> THEN 0 ELSE Len(FirstDoc(userid).subs),
     bound  |-> bindings[<<queue_name(userid), routing_key(topic)>>],
     queue  |-> queue_name(userid) \in queues]

InFlight(c) == pc[c] \notin {"idle", "done"}

\* The service starts on an empty collection and a broker without queues.
\* User u1 has been served before: a subscribe followed by an unsubscribe of
\* the same topic left a document with an empty array and a declared queue.
\* User u2 has never been seen.
Constructed ==
    /\ docs = [u \in HeaderValues |->
                 IF u \in KnownUsers THEN <<[has |-> TRUE, subs |-> <<>>]>> ELSE <<>>]
    /\ queues = {queue_name(u) : u \in KnownUsers}
    /\ bindings = [b \in QueueNames \X RoutingKeys |-> 0]
    /\ pc = [c \in Callers |-> "idle"]
    /\ req = [c \in Callers |-> NoReq]
    /\ txn = [c \in Callers |-> NoTxn]
    /\ modified = [c \in Callers |-> 0]
    /\ exc = [c \in Callers |-> [http |-> FALSE, text |-> <<>>]]
    /\ resp = [c \in Callers |-> NoResp]
    /\ pre = [c \in Callers |-> NoView]
    /\ after = [c \in Callers |-> Nobody]
    /\ overlap = [c \in Callers |-> FALSE]
    /\ lastDone = Nobody
    /\ failed = [c \in Callers |-> "none"]
    /\ commitFailed = FALSE
    /\ nreq = 0
    /\ cdLog = <<>>
    /\ published = <<>>
    /\ queued = [q \in QueueNames |-> <<>>]
    /\ msgResp = NoResp
    /\ getResp = NoGet
    /\ session = [c \in Callers |-> NoSession]
    /\ routed = NoRouted
    /\ graph = CreatedGraph
    /\ gcall = [c \in GraphCallers |-> NoCall]

\* The state in which requests are served: startup has completed, which it
\* does only on a broker that has the exchange.
Init == Constructed /\ boot = Started

\* ------------------------------------------------- registry (MongoDB) model
\* {"$addToSet": {"subscriptions": topic}} on the array of one document.
AddToSet(subs, topic) ==
    IF topic \in Range(subs) THEN subs ELSE Append(subs, topic)

\* Mutant of Pull: the topic is left in the array.
PullNothing(subs, topic) == subs

\* {"$pull": {"subscriptions": topic}} on the array of one document.
Pull(subs, topic) == SelectSeq(subs, LAMBDA x : x # topic)

\* The update document of update_one, applied to the array of a document.
Mutate(op, subs, topic) ==
    IF op = add_subscription THEN AddToSet(subs, topic) ELSE Pull(subs, topic)

\* The document an upsert inserts when no document matches {"userid": userid}:
\* $addToSet creates the array, $pull leaves the field out.
\* Mutant of Upserted: the inserted document holds the topic whatever the
\* operator.
UpsertedWithTopic(op, topic) == [has |-> TRUE, subs |-> <<topic>>]

Upserted(op, topic) ==
    IF op = add_subscription
    THEN [has |-> TRUE, subs |-> <<topic>>]
    ELSE [has |-> FALSE, subs |-> <<>>]

\* Another open transaction holds an uncommitted update of the user's document.
WriteConflict(c, userid) ==
    \E d \in Callers \ {c} :
        /\ txn[d].kind = "update"
        /\ req[d].userid = userid

\* Mutant of Committed: a document whose array becomes empty is removed.
CommittedPruned(t, userid) ==
    CASE t.kind = "insert" -> [docs EXCEPT ![userid] = Append(@, t.doc)]
      [] t.kind = "update" ->
            [docs EXCEPT ![userid] =
                IF t.doc.subs = <<>> THEN Tail(@) ELSE <<t.doc>> \o Tail(@)]
      [] OTHER -> docs

\* The collection after the transaction's write is committed.
Committed(t, userid) ==
    CASE t.kind = "insert" -> [docs EXCEPT ![userid] = Append(@, t.doc)]
      [] t.kind = "update" -> [docs EXCEPT ![userid] = <<t.doc>> \o Tail(@)]
      [] OTHER -> docs

\* --------------------------------------------------- broker (RabbitMQ) model
\* Mutant of Bound: every bind adds a binding.
BoundAgain(n) == n + 1

\* queue.bind: binding an already bound routing key adds nothing.
Bound(n) == IF n = 0 THEN 1 ELSE n

\* Mutant of Unbound: the binding is left in place.
UnboundKept(n) == n

\* queue.unbind: removes the binding; unbinding an absent binding is accepted.
Unbound(n) == 0

\* ------------------------------------------------------ responses and errors
\* An exception object: a library error, or the HTTPException of line 153.
LibraryError(text) == [http |-> FALSE, text |-> <<text>>]
NoExc == [http |-> FALSE, text |-> <<>>]

\* str(e): starlette renders an HTTPException as "<status_code>: <detail>".
Str(e) == IF e.http THEN <<"500: ">> \o e.text ELSE e.text

\* raise HTTPException(status_code=500, detail=str(e))
HTTPException(e) == [http |-> TRUE, text |-> Str(e)]

\* The value subscription_transaction returns (lines 122-125, 137-140).
ReturnValue(op, modified_count) ==
    IF modified_count > 0
    THEN IF op = add_subscription
         THEN "Added subscription" ELSE "Deleted subscription"
    ELSE "No updates made."

\* return {"message": result}
Ok(result) == [status |-> 200, body |-> <<result>>]

\* What the client receives for an HTTPException raised by a route.
Error(e) == [status |-> 500, body |-> e.text]

\* The response leaves the service: the request is finished.
Respond(c, r, newdocs) ==
    /\ resp' = [resp EXCEPT ![c] = r]
    /\ docs' = newdocs
    /\ lastDone' = c
    /\ txn' = [txn EXCEPT ![c] = NoTxn]
    /\ exc' = [exc EXCEPT ![c] = NoExc]
    /\ modified' = [modified EXCEPT ![c] = 0]
    /\ pc' = [pc EXCEPT ![c] = "done"]

\* Mutant of Except: the exception is logged and the function carries on with
\* the broker step.
ExceptLogged(c, text) ==
    /\ failed' = [failed EXCEPT ![c] = text]
    /\ pc' = [pc EXCEPT ![c] = "declare_queue"]
    /\ UNCHANGED exc

\* except Exception as e (line 148): abort_transaction() is called without
\* await, HTTPException is raised and the transaction context manager is left
\* with an exception.
Except(c, text) ==
    /\ exc' = [exc EXCEPT ![c] = HTTPException(LibraryError(text))]
    /\ failed' = [failed EXCEPT ![c] = text]
    /\ pc' = [pc EXCEPT ![c] = "abort_transaction"]

\* ------------------------------------------------------------------ actions
\* A route is called: add_subscription or delete_subscription.
\* The request has issued one more call of the given kind.
Called(s, call) == [s EXCEPT ![call] = @ + 1]

\* session.start_transaction(): the session has a transaction in progress.
start_transaction(s) == [s EXCEPT !.state = "open"]

\* Mutant of exit_transaction: the context manager is left without ending
\* the transaction.
exit_left_open(s, raised) == s

\* Leaving "async with session.start_transaction()": with a transaction in
\* progress the context manager calls commit_transaction when the block was
\* left without an exception (a return included) and abort_transaction when
\* it was left with one.  The abort_transaction() of line 151 is a coroutine
\* that is never awaited, so it ends nothing.
exit_transaction(s, raised) ==
    IF s.state # "open" THEN s
    ELSE IF raised
    THEN [s EXCEPT !.state = "aborted", !.aborts = @ + 1]
    ELSE [s EXCEPT !.state = "committed", !.commits = @ + 1]

Request(c, op, userid, topic) ==
    /\ ~InFlight(c)
    /\ nreq < MaxOps
    /\ nreq' = nreq + 1
    /\ req' = [req EXCEPT ![c] = [op |-> op, userid |-> userid, topic |-> topic]]
    /\ pre' = [pre EXCEPT ![c] = View(userid, topic)]
    /\ after' = [after EXCEPT ![c] = lastDone]
    /\ failed' = [failed EXCEPT ![c] = "none"]
    /\ resp' = [resp EXCEPT ![c] = NoResp]
    /\ exc' = [exc EXCEPT ![c] = NoExc]
    /\ modified' = [modified EXCEPT ![c] = 0]
    /\ overlap' = [d \in Callers |->
                     IF d = c THEN \E e \in Callers \ {c} : InFlight(e)
                     ELSE IF InFlight(d) THEN TRUE ELSE overlap[d]]
    /\ pc' = [pc EXCEPT ![c] = "start_session"]
    /\ session' = [session EXCEPT ![c] = NoSession]
    /\ UNCHANGED <<docs, queues, bindings, txn, lastDone, commitFailed>>
    /\ UNCHANGED others

\* async with await mongo_client.start_session() / session.start_transaction()
start_session(c) ==
    /\ pc[c] = "start_session"
    /\ \/ /\ pc' = [pc EXCEPT ![c] = "update_one"]
          /\ session' = [session EXCEPT ![c] = start_transaction(@)]
          /\ UNCHANGED <<docs, queues, bindings, req, txn, modified, exc, resp,
                         pre, after, overlap, lastDone, failed, commitFailed, nreq>>
       \/ \* the session cannot be started: the route's except answers
          /\ Respond(c, Error(HTTPException(LibraryError("start_session"))), docs)
          /\ failed' = [failed EXCEPT ![c] = "start_session"]
          /\ UNCHANGED <<queues, bindings, req, pre, after, overlap, commitFailed,
                         nreq, session>>
    /\ UNCHANGED others

\* collection.update_one({"userid": userid}, ..., upsert=True, session=session)
update_one(c) ==
    /\ pc[c] = "update_one"
    /\ LET u == req[c].userid
           t == req[c].topic
           op == req[c].op
       IN \/ \* no document matches: the upsert inserts one, nothing is modified
             /\ docs[u] = <<>>
             /\ txn' = [txn EXCEPT ![c] = [kind |-> "insert", doc |-> Upserted(op, t)]]
             /\ modified' = [modified EXCEPT ![c] = 0]
             /\ pc' = [pc EXCEPT ![c] = "declare_queue"]
             /\ UNCHANGED <<exc, failed>>
          \/ \* the first matching document is left as it is
             /\ docs[u] # <<>>
             /\ Mutate(op, FirstDoc(u).subs, t) = FirstDoc(u).subs
             /\ modified' = [modified EXCEPT ![c] = 0]
             /\ pc' = [pc EXCEPT ![c] = "declare_queue"]
             /\ UNCHANGED <<txn, exc, failed>>
          \/ \* the first matching document is modified
             /\ docs[u] # <<>>
             /\ Mutate(op, FirstDoc(u).subs, t) # FirstDoc(u).subs
             /\ ~WriteConflict(c, u)
             /\ txn' = [txn EXCEPT ![c] =
                         [kind |-> "update",
                          doc  |-> [has |-> TRUE,
                                    subs |-> Mutate(op, FirstDoc(u).subs, t)]]]
             /\ modified' = [modified EXCEPT ![c] = 1]
             /\ pc' = [pc EXCEPT ![c] = "declare_queue"]
             /\ UNCHANGED <<exc, failed>>
          \/ \* the document is being written by another open transaction
             /\ docs[u] # <<>>
             /\ Mutate(op, FirstDoc(u).subs, t) # FirstDoc(u).subs
             /\ WriteConflict(c, u)
             /\ Except(c, "WriteConflict")
             /\ UNCHANGED <<txn, modified>>
          \/ \* the registry cannot be reached
             /\ Except(c, "update_one")
             /\ UNCHANGED <<txn, modified>>
    /\ session' = [session EXCEPT ![c] = Called(@, "update_one")]
    /\ UNCHANGED <<docs, queues, bindings, req, resp, pre, after, overlap,
                   lastDone, commitFailed, nreq>>
    /\ UNCHANGED others

\* channel.declare_queue(queue_name, passive=False, exclusive=False, durable=True)
declare_queue(c) ==
    /\ pc[c] = "declare_queue"
    /\ \/ /\ queues' = queues \cup {queue_name(req[c].userid)}
          /\ pc' = [pc EXCEPT ![c] =
                      IF req[c].op = add_subscription THEN "bind" ELSE "unbind"]
          /\ UNCHANGED <<exc, failed>>
       \/ /\ Except(c, "declare_queue")
          /\ UNCHANGED queues
    /\ session' = [session EXCEPT ![c] = Called(@, "declare_queue")]
    /\ UNCHANGED <<docs, bindings, req, txn, modified, resp, pre, after,
                   overlap, lastDone, commitFailed, nreq>>
    /\ UNCHANGED others

\* After a successful broker call of create_/delete_rabbitmq_binding: the
\* function returns inside the transaction context manager, which commits.
BrokerDone(c) ==
    /\ pc' = [pc EXCEPT ![c] = "commit_transaction"]
    /\ session' = [session EXCEPT
                     ![c] = Called(Called(@, "binding"), "succeeded")]
    /\ UNCHANGED <<exc, failed>>

\* Mutant of BrokerFailed: the exception is logged and not re-raised.
BrokerFailureIgnored(c, text) ==
    /\ pc' = [pc EXCEPT ![c] = "commit_transaction"]
    /\ failed' = [failed EXCEPT ![c] = text]
    /\ session' = [session EXCEPT ![c] = Called(@, "binding")]
    /\ UNCHANGED exc

\* After a failed broker call: the exception is re-raised into line 148.
BrokerFailed(c, text) ==
    /\ Except(c, text)
    /\ session' = [session EXCEPT ![c] = Called(@, "binding")]

\* queue.bind(exchange_name, routing_key) in create_rabbitmq_binding
bind(c) ==
    /\ pc[c] = "bind"
    /\ LET b == <<queue_name(req[c].userid), routing_key(req[c].topic)>>
       IN \/ /\ bindings' = [bindings EXCEPT ![b] = Bound(@)]
             /\ BrokerDone(c)
          \/ /\ BrokerFailed(c, "bind")
             /\ UNCHANGED bindings
    /\ UNCHANGED <<docs, queues, req, txn, modified, resp, pre, after,
                   overlap, lastDone, commitFailed, nreq>>
    /\ UNCHANGED others

\* queue.unbind(exchange_name, routing_key) in delete_rabbitmq_binding
unbind(c) ==
    /\ pc[c] = "unbind"
    /\ LET b == <<queue_name(req[c].userid), routing_key(req[c].topic)>>
       IN \/ /\ bindings' = [bindings EXCEPT ![b] = Unbound(@)]
             /\ BrokerDone(c)
          \/ /\ BrokerFailed(c, "unbind")
             /\ UNCHANGED bindings
    /\ UNCHANGED <<docs, queues, req, txn, modified, resp, pre, after,
                   overlap, lastDone, commitFailed, nreq>>
    /\ UNCHANGED others

\* Mutant of Aborted: the write of the transaction is kept.
AbortedKept(t, userid) == Committed(t, userid)

\* The collection after a transaction is aborted: its write is dropped.
Aborted(t, userid) == docs

\* Mutant of CommitFailure: the route answers as if the commit had succeeded.
CommitFailureSwallowed(c) == Ok(ReturnValue(req[c].op, modified[c]))

\* What the route answers when the commit raises: its except turns the
\* exception into an HTTPException.
CommitFailure(c) == Error(HTTPException(LibraryError("commit_transaction")))

\* The transaction context manager exits without an exception: it commits,
\* and the route answers with the returned message.  A failed commit raises
\* out of subscription_transaction into the route's except.
commit_transaction(c) ==
    /\ pc[c] = "commit_transaction"
    /\ \/ /\ Respond(c, Ok(ReturnValue(req[c].op, modified[c])),
                     Committed(txn[c], req[c].userid))
          /\ UNCHANGED <<failed, commitFailed>>
       \/ /\ Respond(c, CommitFailure(c), Aborted(txn[c], req[c].userid))
          /\ failed' = [failed EXCEPT ![c] = "commit_transaction"]
          /\ commitFailed' = TRUE
    /\ session' = [session EXCEPT ![c] = exit_transaction(@, FALSE)]
    /\ UNCHANGED <<queues, bindings, req, pre, after, overlap, nreq>>
    /\ UNCHANGED others

\* The transaction context manager exits with the HTTPException of line 153:
\* it aborts, and the route's except answers.  The abort of line 151 was not
\* awaited: whether it ran, and whether the abort of the context manager then
\* raises in its place, is left to the driver, so the exception that reaches
\* the route is either one.
abort_transaction(c) ==
    /\ pc[c] = "abort_transaction"
    /\ \E e \in {exc[c], LibraryError("abort_transaction")} :
          Respond(c, Error(HTTPException(e)), Aborted(txn[c], req[c].userid))
    /\ session' = [session EXCEPT ![c] = exit_transaction(@, TRUE)]
    /\ UNCHANGED <<queues, bindings, req, pre, after, overlap, failed,
                   commitFailed, nreq>>
    /\ UNCHANGED others

Step(c) ==
    \/ start_session(c)
    \/ update_one(c)
    \/ declare_queue(c)
    \/ bind(c)
    \/ unbind(c)
    \/ commit_transaction(c)
    \/ abort_transaction(c)

\* Requests are served concurrently.
Next ==
    \E c \in Callers :
        \/ \E op \in Ops, u \in UserIds, t \in Topics : Request(c, op, u, t)
        \/ Step(c)

Spec == Init /\ [][Next]_vars

\* Requests served concurrently under fair scheduling: every awaited call of
\* a request in progress returns or raises, and the event loop resumes the
\* coroutine that awaited it, so no request in progress waits for ever.
\* The requests are those of one user who has not been served before, for
\* one topic.
LiveUsers == UserIds \ KnownUsers
LiveTopics == {"weather"}

NextLive ==
    \E c \in Callers :
        \/ \E op \in Ops, u \in LiveUsers, t \in LiveTopics : Request(c, op, u, t)
        \/ Step(c)

SpecLive == Init /\ [][NextLive]_vars /\ \A c \in Callers : WF_vars(Step(c))

\* Requests arrive one after the other: none while another is being served.
RequestSeq(c, op, userid, topic) ==
    /\ \A d \in Callers : ~InFlight(d)
    /\ Request(c, op, userid, topic)

NextSeq ==
    \E c \in Callers :
        \/ \E op \in Ops, u \in UserIds, t \in Topics : RequestSeq(c, op, u, t)
        \/ Step(c)

SpecSeq == Init /\ [][NextSeq]_vars

\* Requests arrive one after the other, with or without a userid header.
NextHeader ==
    \E c \in Callers :
        \/ \E op \in Ops, u \in HeaderValues, t \in Topics :
              RequestSeq(c, op, u, t)
        \/ Step(c)

SpecHeader == Init /\ [][NextHeader]_vars

\* ---------------------------------------------------------- message routes
\* A binding pattern of the topic exchange against the routing key of a
\* message.  The routing keys of the model are single words: such a key is
\* matched by itself and by the patterns "#" and "*".
Matches(pattern, key) == pattern = key \/ pattern \in {"#", "*"}

\* The queues the exchange routes a message with the given routing key to.
Route(key) ==
    {q \in queues : \E p \in RoutingKeys :
                        bindings[<<q, p>>] > 0 /\ Matches(p, key)}

\* The queues of the users whose committed subscriptions hold the topic.
Subscribers(topic) == {queue_name(u) : u \in {v \in UserIds : Listed(v, topic)}}

\* No subscribe or unsubscribe is in progress and, for every user and topic,
\* the topic is in the committed subscriptions exactly when the binding of
\* its routing key exists.
Settled ==
    /\ \A c \in Callers : ~InFlight(c)
    /\ \A u \in UserIds, t \in AnyTopics :
          Listed(u, t) <=> bindings[<<queue_name(u), routing_key(t)>>] > 0

\* Mutant of Message: the message is not marked persistent.
MessageTransient == [delivery_mode |-> "NOT_PERSISTENT"]

\* Message(body=json.dumps(body).encode(), delivery_mode=DeliveryMode.PERSISTENT)
Message == [delivery_mode |-> "PERSISTENT"]

\* await exchange.publish(routing_key=key, message=message) and the answer of
\* the route: the exchange accepts the message and routes it, or the publish
\* raises and the route's except answers.
publish(key, result) ==
    /\ nreq < MaxOps
    /\ nreq' = nreq + 1
    /\ \/ /\ published' = Append(published,
                                 [routing_key |-> key, message |-> Message])
          /\ queued' = [q \in QueueNames |->
                          IF q \in Route(key) THEN Append(queued[q], key)
                          ELSE queued[q]]
          /\ msgResp' = Ok(result)
          /\ routed' = [key |-> key, to |-> Route(key),
                        subscribers |-> Subscribers(key), settled |-> Settled]
       \/ /\ msgResp' = Error(HTTPException(LibraryError("publish")))
          /\ UNCHANGED <<published, queued, routed>>
    /\ UNCHANGED <<docs, queues, bindings, pc, req, txn, modified, exc, resp,
                   pre, after, overlap, lastDone, failed, commitFailed, cdLog,
                   getResp, session, boot, graph, gcall>>

\* POST /notifications/message/{topic}
publish_message(topic) ==
    publish(topic, <<"Publishing message with routing key: ", topic>>)

\* POST /notifications/message/broadcast/
broadcast_message == publish(RABBITMQ_BROADCAST_KEY, <<"Broadcasted message.">>)

\* The coroutine that serves subscribe and unsubscribe beside the message
\* routes.
MsgCallers == {"c1"}

\* Subscribe and unsubscribe requests served one after the other, with
\* messages published and broadcast at any moment.
NextMsg ==
    \/ \E c \in MsgCallers :
          \/ \E op \in Ops, u \in UserIds, t \in Topics : RequestSeq(c, op, u, t)
          \/ Step(c)
    \/ \E t \in Topics : publish_message(t)
    \/ broadcast_message

SpecMsg == Init /\ [][NextMsg]_vars

\* As NextMsg, with any string as the topic of a request or of a message.
NextRoute ==
    \/ \E c \in MsgCallers :
          \/ \E op \in Ops, u \in UserIds, t \in AnyTopics : RequestSeq(c, op, u, t)
          \/ Step(c)
    \/ \E t \in AnyTopics : publish_message(t)
    \/ broadcast_message

SpecRoute == Init /\ [][NextRoute]_vars

\* ------------------------------------------------------------------ startup
\* channel.declare_exchange(name, ExchangeType.TOPIC, durable=True,
\* passive=True) on a broker where the exchange exists or not: a passive
\* declare only checks that the exchange is there, it creates nothing, and
\* the broker answers a missing exchange with NOT_FOUND.
declare_exchange(exists) ==
    [exchange |-> exists, raised |-> IF exists THEN "none" ELSE "NOT_FOUND"]

\* lifespan up to its yield (lines 33-83).  A failed connect_robust is
\* printed and the generator ends without yielding; any other exception is
\* raised as an HTTPException: in both cases startup fails and no request is
\* served.
lifespan ==
    /\ boot.app = "starting"
    /\ \/ boot' = [boot EXCEPT !.app = "failed", !.raised = "AMQPConnectionError"]
       \/ LET d == declare_exchange(boot.exchange) IN
             boot' = [app      |-> IF d.raised = "none" THEN "serving" ELSE "failed",
                      exchange |-> d.exchange,
                      raised   |-> d.raised]
    /\ UNCHANGED <<docs, queues, bindings, pc, req, txn, modified, exc, resp,
                   pre, after, overlap, lastDone, failed, commitFailed, nreq,
                   cdLog, published, queued, msgResp, getResp, session,
                   routed, graph, gcall>>

\* The service is started against a broker that has the exchange or has not.
InitBoot ==
    /\ Constructed
    /\ boot \in {[app |-> "starting", exchange |-> e, raised |-> "none"] :
                   e \in BOOLEAN}

\* Startup, then requests served one after the other once the application
\* is serving.
NextBoot ==
    \/ lifespan
    \/ /\ boot.app = "serving"
       /\ \E c \in MsgCallers :
             \/ \E op \in Ops, u \in UserIds, t \in Topics : RequestSeq(c, op, u, t)
             \/ Step(c)

SpecBoot == InitBoot /\ [][NextBoot]_vars

\* ------------------------------------------------------ subscription query
\* What the client receives from get_subscriptions: the status, the kind of
\* JSON value of the body and, for an array, its elements. "read" keeps the
\* committed documents the find() saw.
GetAnswer(userid, status, json, topics, raised) ==
    [userid |-> userid, status |-> status, json |-> json, topics |-> topics,
     raised |-> raised, read |-> docs[userid]]

\* collection.find({"userid": userid}, {"subscriptions": 1}) without a
\* session: the committed documents of the user, in insertion order.
get_documents(userid) == docs[userid]

\* GET /notifications/subscription/ (lines 192-201). The loop returns inside
\* its first iteration; with no document the function falls off its end and
\* returns None; a document without the subscriptions field raises KeyError,
\* which the except clause turns into a 500, as it does a failing find().
get_subscriptions(userid) ==
    /\ nreq < MaxOps
    /\ nreq' = nreq + 1
    /\ \/ LET found == get_documents(userid) IN
             getResp' =
                 IF found = <<>>
                 THEN GetAnswer(userid, 200, "null", <<>>, "none")
                 ELSE IF ~found[1].has
                 THEN GetAnswer(userid, 500, "error", <<>>, "KeyError")
                 ELSE GetAnswer(userid, 200, "array", found[1].subs, "none")
       \/ getResp' = GetAnswer(userid, 500, "error", <<>>, "find")
    /\ UNCHANGED <<docs, queues, bindings, pc, req, txn, modified, exc, resp,
                   pre, after, overlap, lastDone, failed, commitFailed, cdLog,
                   published, queued, msgResp, session, boot, routed, graph,
                   gcall>>

\* Subscribe and unsubscribe requests served one after the other, with the
\* subscriptions of any user queried at any moment, also while a request is
\* in progress.
NextGet ==
    \/ \E c \in MsgCallers :
          \/ \E op \in Ops, u \in UserIds, t \in Topics : RequestSeq(c, op, u, t)
          \/ Step(c)
    \/ \E u \in UserIds : get_subscriptions(u)

SpecGet == Init /\ [][NextGet]_vars

\* ------------------------- change_detection_subscriptions.add_subscription
\* The calls of the function that can raise, in the order it makes them:
\* client.start_session()/start_transaction() before the try, update_one, and
\* pika.BlockingConnection(rabbitmq_conn_params), whose names the module
\* never defines, so that this call raises NameError whenever it is reached.
cd_steps == <<"start_session", "update_one", "BlockingConnection">>

\* What the caller of the function gets when the given call raises: the
\* session is opened outside the try, so its exception propagates; the except
\* of line 80 prints, aborts and does not re-raise, so the function returns
\* None.
cd_returned(step) == IF step = cd_steps[1] THEN "raised" ELSE "None"

\* The write the transaction holds when the given call raises.  The filter
\* {"user_id": user_id} matches no document (the routes write the field
\* userid, and this function never commits), so update_one upserts.
cd_pending(step, topic) ==
    IF step = cd_steps[3]
    THEN [kind |-> "insert", doc |-> Upserted(add_subscription, topic)]
    ELSE NoTxn

\* async def add_subscription(user_id, topic): it awaits nothing, so a call
\* runs from start to end without interleaving.  The call that raises is the
\* first of cd_steps that fails; BlockingConnection always does.
cd_add_subscription(user_id, topic) ==
    /\ Len(cdLog) < MaxOps
    /\ \E i \in 1..Len(cd_steps) :
          /\ cdLog' = Append(cdLog, [user_id  |-> user_id,
                                     topic    |-> topic,
                                     failed   |-> cd_steps[i],
                                     returned |-> cd_returned(cd_steps[i])])
          /\ docs' = Aborted(cd_pending(cd_steps[i], topic), user_id)
    /\ UNCHANGED <<queues, bindings, pc, req, txn, modified, exc, resp, pre,
                   after, overlap, lastDone, failed, commitFailed, nreq,
                   published, queued, msgResp, getResp, session, boot,
                   routed, graph, gcall>>

NextCD == \E u \in UserIds, t \in Topics : cd_add_subscription(u, t)

SpecCD == Init /\ [][NextCD]_vars

\* ---------------------------------------------------------- graph service
\* ALLOWED_LABELS_AND_TYPES (lines 61-76), its "allowed_relationships": source
\* label -> target label -> relationship types.  The keys of the inner
\* dictionaries spell the second label with a space.
ALLOWED_LABELS_AND_TYPES ==
    [l \in {"Requirement", "Requirement_Specification"} |->
        [t \in {"Requirement", "Requirement Specification"} |->
            IF l = "Requirement"
            THEN IF t = "Requirement" THEN {"child", "parent"} ELSE {"part_of"}
            ELSE IF t = "Requirement" THEN {"contains"} ELSE {"child", "parent"}]]

\* ALLOWED_LABELS = list(ALLOWED_LABELS_AND_TYPES.keys())
ALLOWED_LABELS == DOMAIN ALLOWED_LABELS_AND_TYPES

\* Mutant of allowed_label: no label is refused.
any_label(label) == TRUE

\* The test every label-addressed route starts with: label in ALLOWED_LABELS.
allowed_label(label) == label \in ALLOWED_LABELS

\* Relationship.validate_relationship_type: the model is built only when
\* both labels are allowed, the source label's table has the target label
\* and the type is listed there.
validate_relationship_type(source_node_label, target_node_label, relationship_type) ==
    /\ allowed_label(source_node_label)
    /\ allowed_label(target_node_label)
    /\ source_node_label \in DOMAIN ALLOWED_LABELS_AND_TYPES
    /\ target_node_label \in DOMAIN ALLOWED_LABELS_AND_TYPES[source_node_label]
    /\ relationship_type
          \in ALLOWED_LABELS_AND_TYPES[source_node_label][target_node_label]

\* Everything but the graph, its callers and the count of requests.
service == <<docs, queues, bindings, pc, req, txn, modified, exc, resp, pre,
             after, overlap, lastDone, failed, commitFailed, cdLog, published,
             queued, msgResp, getResp, session, boot, routed>>

\* MATCH (n:label {name: $name})
Match(label, name) == {n \in graph.nodes : n.label = label /\ n.name = name}

\* MATCH (n {uuid: $uuid})
MatchUuid(uuid) == {n \in graph.nodes : n.uuid = uuid}

\* MATCH ()-[r {uuid: $uuid}]->()
MatchRel(uuid) == {r \in graph.rels : r.uuid = uuid}

\* session.run(query): the request has sent one more query to the database.
Run(call) == [call EXCEPT !.queries = @ + 1]

\* SET e.key = $key, or REMOVE e.key when the value is null.
SetProperty(e, key, value) == [e EXCEPT ![key] = value]

\* The request of a caller as the route function receives it.
Call(route, label, name, target_label, target_name, type, key) ==
    [pc |-> "running", route |-> route, label |-> label, name |-> name,
     target_label |-> target_label, target_name |-> target_name,
     type |-> type, key |-> key, status |-> 0, queries |-> 0]

\* A request arrives at the graph service.
Arrive(c) ==
    /\ gcall[c].pc \in {"idle", "done"}
    /\ nreq < MaxOps
    /\ nreq' = nreq + 1
    /\ UNCHANGED service

\* The route answers with the status.
Answer(c, call, status) ==
    gcall' = [gcall EXCEPT ![c] = [call EXCEPT !.pc = "done", !.status = status]]

\* raise HTTPException(status_code=400, ...) before the driver is touched.
Reject(c, call) == Answer(c, call, 400) /\ UNCHANGED graph

\* The query raises: except Exception answers 500 (create_relationship has
\* no try, the framework answers 500).
QueryFails(c, call) == Answer(c, Run(call), 500) /\ UNCHANGED graph

\* A route that runs one read query after its label test (get_one_node_by_label,
\* get_all_nodes_by_label, get_node_relationships): 404 when the route
\* raises it for an empty result.
Read(c, call, found) ==
    IF ~allowed_label(call.label)
    THEN Reject(c, call)
    ELSE \/ Answer(c, Run(call), IF found THEN 200 ELSE 404) /\ UNCHANGED graph
         \/ QueryFails(c, call)

get_one_node_by_label(c, label, name) ==
    /\ Arrive(c)
    /\ Read(c, Call("get_one_node_by_label", label, name, "", "", "", ""),
            Match(label, name) # {})

get_all_nodes_by_label(c, label) ==
    /\ Arrive(c)
    /\ Read(c, Call("get_all_nodes_by_label", label, "", "", "", "", ""), TRUE)

get_node_relationships(c, label, name) ==
    /\ Arrive(c)
    /\ Read(c, Call("get_node_relationships", label, name, "", "", "", ""),
            \E n \in Match(label, name), r \in graph.rels :
                r.source = n.id \/ r.target = n.id)

\* create_node up to the result of its MATCH (lines 160-170).
create_node(c, label, name) ==
    /\ Arrive(c)
    /\ LET call == Call("create_node", label, name, "", "", "", "") IN
       IF ~allowed_label(label)
       THEN Reject(c, call)
       ELSE \/ /\ Match(label, name) # {}
               /\ Answer(c, Run(call), 400)
               /\ UNCHANGED graph
            \/ /\ Match(label, name) = {}
               /\ gcall' = [gcall EXCEPT ![c] = [Run(call) EXCEPT !.pc = "CREATE"]]
               /\ UNCHANGED graph
            \/ QueryFails(c, call)

\* create_node from uuid.uuid4() to its return (lines 172-180): CREATE makes
\* a node whatever the database holds by now.
create_node_CREATE(c) ==
    /\ gcall[c].pc = "CREATE"
    /\ \/ /\ graph' = [graph EXCEPT
                         !.nodes = @ \cup {[id |-> graph.next + 1,
                                            label |-> gcall[c].label,
                                            name |-> gcall[c].name,
                                            uuid |-> graph.next + 1,
                                            assigned |-> graph.next + 1,
                                            mass |-> None]},
                         !.next = @ + 1]
          /\ Answer(c, Run(gcall[c]), 200)
       \/ QueryFails(c, gcall[c])
    /\ UNCHANGED nreq
    /\ UNCHANGED service

\* The body of the two node updates after their tests: MATCH ... SET/REMOVE
\* ... RETURN n on the matched nodes, 404 when none matched.
UpdateNodes(c, call, matched, update) ==
    \/ /\ matched # {}
       /\ graph' = [graph EXCEPT
                      !.nodes = (@ \ matched) \cup
                                {SetProperty(n, update[1], update[2]) : n \in matched}]
       /\ Answer(c, Run(call), 200)
    \/ /\ matched = {}
       /\ UNCHANGED graph
       /\ Answer(c, Run(call), 404)
    \/ QueryFails(c, call)

update_node_by_label_name(c, label, name, node_update) ==
    /\ Arrive(c)
    /\ LET call == Call("update_node_by_label_name", label, name, "", "", "",
                        node_update[1]) IN
       IF ~allowed_label(label) \/ node_update[1] = "uuid"
       THEN Reject(c, call)
       ELSE UpdateNodes(c, call, Match(label, name), node_update)

update_node_by_uuid(c, uuid, node_update) ==
    /\ Arrive(c)
    /\ LET call == Call("update_node_by_uuid", "", "", "", "", "", node_update[1]) IN
       IF node_update[1] = "uuid"
       THEN Reject(c, call)
       ELSE UpdateNodes(c, call, MatchUuid(uuid), node_update)

\* MATCH ... DETACH DELETE n: the matched nodes go, with their relationships.
DetachDelete(c, call, matched) ==
    \/ /\ matched # {}
       /\ graph' = [graph EXCEPT
                      !.nodes = @ \ matched,
                      !.rels = {r \in @ : \A n \in matched :
                                              r.source # n.id /\ r.target # n.id}]
       /\ Answer(c, Run(call), 200)
    \/ /\ matched = {}
       /\ UNCHANGED graph
       /\ Answer(c, Run(call), 404)
    \/ QueryFails(c, call)

delete_node(c, label, name) ==
    /\ Arrive(c)
    /\ LET call == Call("delete_node", label, name, "", "", "", "") IN
       IF ~allowed_label(label)
       THEN Reject(c, call)
       ELSE DetachDelete(c, call, Match(label, name))

delete_node_by_uuid(c, uuid) ==
    /\ Arrive(c)
    /\ DetachDelete(c, Call("delete_node_by_uuid", "", "", "", "", "", ""),
                    MatchUuid(uuid))

\* create_relationship up to the result of its check query (lines 347-362).
\* A request whose body fails validate_relationship_type never reaches the
\* function: the framework answers 422.
create_relationship(c, source_label, source_name, target_label, target_name, type) ==
    /\ Arrive(c)
    /\ LET call == Call("create_relationship", source_label, source_name,
                        target_label, target_name, type, "") IN
       IF ~validate_relationship_type(source_label, target_label, type)
       THEN Answer(c, call, 422) /\ UNCHANGED graph
       ELSE \/ /\ Match(source_label, source_name) = {}
                    \/ Match(target_label, target_name) = {}
               /\ Answer(c, Run(call), 404)
               /\ UNCHANGED graph
            \/ /\ Match(source_label, source_name) # {}
               /\ Match(target_label, target_name) # {}
               /\ gcall' = [gcall EXCEPT ![c] = [Run(call) EXCEPT !.pc = "MERGE"]]
               /\ UNCHANGED graph
            \/ QueryFails(c, call)

\* The relationships of the type between two nodes.
Between(s, t, type) ==
    {r \in graph.rels : r.source = s.id /\ r.target = t.id /\ r.type = type}

\* create_relationship from uuid.uuid4() to its return (lines 364-383): for
\* each matched pair MERGE takes the relationships of the type that exist or
\* makes one, and SET r += $properties writes the new uuid on each.  The
\* answer is a success also when no pair matches any more.
create_relationship_MERGE(c) ==
    /\ gcall[c].pc = "MERGE"
    /\ LET call == gcall[c]
           pairs == Match(call.label, call.name)
                        \X Match(call.target_label, call.target_name)
           merged == UNION {Between(p[1], p[2], call.type) : p \in pairs}
           made == {[id |-> graph.next + 1, source |-> p[1].id,
                     target |-> p[2].id, type |-> call.type,
                     uuid |-> graph.next + 1, assigned |-> graph.next + 1,
                     mass |-> None] :
                        p \in {q \in pairs : Between(q[1], q[2], call.type) = {}}}
       IN \/ /\ graph' = [graph EXCEPT
                            !.rels = (@ \ merged) \cup made \cup
                                     {SetProperty(r, "uuid", graph.next + 1) :
                                          r \in merged},
                            !.next = @ + 1]
             /\ Answer(c, Run(call), 200)
          \/ QueryFails(c, call)
    /\ UNCHANGED nreq
    /\ UNCHANGED service

update_relationship_by_uuid(c, uuid, relationship_update) ==
    /\ Arrive(c)
    /\ LET call == Call("update_relationship_by_uuid", "", "", "", "", "",
                        relationship_update[1]) IN
       IF relationship_update[1] = "uuid"
       THEN Reject(c, call)
       ELSE \/ /\ MatchRel(uuid) # {}
               /\ graph' = [graph EXCEPT
                              !.rels = (@ \ MatchRel(uuid)) \cup
                                       {SetProperty(r, relationship_update[1],
                                                    relationship_update[2]) :
                                            r \in MatchRel(uuid)}]
               /\ Answer(c, Run(call), 200)
            \/ /\ MatchRel(uuid) = {}
               /\ UNCHANGED graph
               /\ Answer(c, Run(call), 404)
            \/ QueryFails(c, call)

delete_relationship_by_uuid(c, uuid) ==
    /\ Arrive(c)
    /\ LET call == Call("delete_relationship_by_uuid", "", "", "", "", "", "") IN
       \/ /\ MatchRel(uuid) # {}
          /\ graph' = [graph EXCEPT !.rels = @ \ MatchRel(uuid)]
          /\ Answer(c, Run(call), 200)
       \/ /\ MatchRel(uuid) = {}
          /\ UNCHANGED graph
          /\ Answer(c, Run(call), 404)
       \/ QueryFails(c, call)

\* The uuids a client can have learnt: those handed out so far.
KnownUuids == 1..graph.next

\* Requests to the graph service are served concurrently.
NextGraph ==
    \E c \in GraphCallers :
        \/ \E l \in GraphLabels, n \in Range(GraphNames) :
              \/ get_one_node_by_label(c, l, n)
              \/ get_node_relationships(c, l, n)
              \/ create_node(c, l, n)
              \/ delete_node(c, l, n)
              \/ \E u \in GraphUpdates : update_node_by_label_name(c, l, n, u)
        \/ \E l \in GraphLabels : get_all_nodes_by_label(c, l)
        \/ create_node_CREATE(c)
        \/ \E sl, tl \in GraphLabels, t \in GraphTypes :
              create_relationship(c, sl, GraphNames[1], tl, GraphNames[2], t)
        \/ create_relationship_MERGE(c)
        \/ \E id \in KnownUuids : delete_node_by_uuid(c, id)
        \/ \E id \in KnownUuids : delete_relationship_by_uuid(c, id)
        \/ \E id \in KnownUuids, u \in GraphUpdates : update_node_by_uuid(c, id, u)
        \/ \E id \in KnownUuids, u \in GraphUpdates :
              update_relationship_by_uuid(c, id, u)

SpecGraph == Init /\ [][NextGraph]_vars

\* ------------------------------------------------------- claim vocabulary
\* The error kind a caller can tell apart: the HTTP status of the response.
ErrorKind(r) == r.status

Done(c) == pc[c] = "done"

\* No subscribe or unsubscribe is in progress.
Quiescent == \A c \in Callers : ~InFlight(c)

\* Number of bindings of the topic on the user's queue.
BindingCount(userid, topic) ==
    bindings[<<queue_name(userid), routing_key(topic)>>]

\* c's request was the last one answered and nothing has started since.
JustAnswered(c) == Quiescent /\ Done(c) /\ lastDone = c

\* c1's request was answered, then c2's request arrived and was answered, and
\* nothing else happened in between or since.
InSequence(c1, c2) ==
    /\ c1 # c2
    /\ Done(c1)
    /\ JustAnswered(c2)
    /\ after[c2] = c1
    /\ ~overlap[c2]

IsSubscribe(c, userid, topic) ==
    req[c] = [op |-> add_subscription, userid |-> userid, topic |-> topic]

IsUnsubscribe(c, userid, topic) ==
    req[c] = [op |-> delete_subscription, userid |-> userid, topic |-> topic]

Success(c) == resp[c].status = 200

Added == <<"Added subscription">>
Removed == <<"Deleted subscription">>
\* The one message the code has for AlreadyPresent and for NotPresent.
NoUpdates == <<"No updates made.">>

BrokerCalls == {"declare_queue", "bind", "unbind"}

\* Number of topics in the user's committed subscriptions.
TopicCount(userid) ==
    IF docs[userid] = <<>> THEN 0 ELSE Len(FirstDoc(userid).subs)

\* ------------------------------------------------------------------ claims
\* C1: in every state with no subscribe or unsubscribe in progress, reached by
\* requests served one after the other in which broker calls may fail but no
\* commit has failed, a topic is in a user's committed subscriptions if and
\* only if the binding of that routing key on the user's queue exists.
C1_RegistryBrokerConsistent ==
    (Quiescent /\ ~commitFailed) =>
        \A u \in UserIds, t \in Topics :
            Listed(u, t) <=> BindingCount(u, t) > 0

\* A subscription is in place, and another request has failed at the broker.
C1_Witness ==
    /\ Quiescent
    /\ ~commitFailed
    /\ \E c \in Callers : failed[c] \in BrokerCalls
    /\ \E u \in UserIds, t \in Topics : Listed(u, t) /\ BindingCount(u, t) > 0

\* C2: when subscribe(u, t) answers with success, the committed registry
\* lists t for u and the binding of t on u's queue exists; success is never
\* answered when the commit failed.
C2_SubscribeSuccess ==
    \A c \in Callers, u \in UserIds, t \in Topics :
        (JustAnswered(c) /\ IsSubscribe(c, u, t)) =>
            /\ Success(c) => (Listed(u, t) /\ BindingCount(u, t) > 0)
            /\ failed[c] = "commit_transaction" => ~Success(c)

\* A subscribe of a topic that was not listed has been answered with success.
C2_Witness ==
    \E c \in Callers, u \in UserIds, t \in Topics :
        /\ JustAnswered(c)
        /\ IsSubscribe(c, u, t)
        /\ Success(c)
        /\ ~pre[c].listed

\* C3: when unsubscribe(u, t) answers with success, the committed registry
\* does not list t for u and the binding of t on u's queue is gone; the
\* answer is Removed when t was listed before the call and NotPresent
\* otherwise.
C3_UnsubscribeSuccess ==
    \A c \in Callers, u \in UserIds, t \in Topics :
        (JustAnswered(c) /\ IsUnsubscribe(c, u, t) /\ Success(c)) =>
            /\ ~Listed(u, t)
            /\ BindingCount(u, t) = 0
            /\ resp[c].body = IF pre[c].listed THEN Removed ELSE NoUpdates

\* An unsubscribe of a listed and bound topic has been answered with success.
C3_Witness ==
    \E c \in Callers, u \in UserIds, t \in Topics :
        /\ JustAnswered(c)
        /\ IsUnsubscribe(c, u, t)
        /\ Success(c)
        /\ pre[c].listed
        /\ pre[c].bound > 0

\* C4: for a topic not yet subscribed (also for a user without a document),
\* two subscribes in sequence without failure answer Added and then
\* AlreadyPresent, and leave one occurrence of the topic and one binding.
C4_SubscribeTwice ==
    \A c1, c2 \in Callers, u \in UserIds, t \in Topics :
        ( /\ InSequence(c1, c2)
          /\ IsSubscribe(c1, u, t) /\ IsSubscribe(c2, u, t)
          /\ failed[c1] = "none" /\ failed[c2] = "none"
          /\ ~pre[c1].listed ) =>
            /\ resp[c1] = Ok("Added subscription")
            /\ resp[c2] = Ok("No updates made.")
            /\ SumOcc(docs[u], t) = 1
            /\ BindingCount(u, t) = 1

\* C5: from an empty topic set and no binding, subscribe(u, t) followed by
\* unsubscribe(u, t), without failure, leaves an empty topic set for u and no
\* binding of t on u's queue.
C5_SubscribeThenUnsubscribe ==
    \A c1, c2 \in Callers, u \in UserIds, t \in Topics :
        ( /\ InSequence(c1, c2)
          /\ IsSubscribe(c1, u, t) /\ IsUnsubscribe(c2, u, t)
          /\ failed[c1] = "none" /\ failed[c2] = "none"
          /\ pre[c1].topics = 0 /\ pre[c1].bound = 0 ) =>
            /\ TopicCount(u) = 0
            /\ SumOcc(docs[u], t) = 0
            /\ BindingCount(u, t) = 0

\* A subscribe and then an unsubscribe of the same topic both succeeded.
C5_Witness ==
    \E c1, c2 \in Callers, u \in UserIds, t \in Topics :
        /\ InSequence(c1, c2)
        /\ IsSubscribe(c1, u, t) /\ IsUnsubscribe(c2, u, t)
        /\ resp[c1] = Ok("Added subscription")
        /\ resp[c2] = Ok("Deleted subscription")
        /\ pre[c1].topics = 0 /\ pre[c1].bound = 0

C7_UnsubscribeCompensation ==
    \A c \in Callers, u \in UserIds, t \in Topics :
        ( /\ JustAnswered(c)
          /\ IsUnsubscribe(c, u, t)
          /\ failed[c] \in BrokerCalls
          /\ pre[c].listed /\ pre[c].bound > 0 ) =>
            /\ Listed(u, t)
            /\ SumOcc(docs[u], t) = pre[c].occ
            /\ BindingCount(u, t) = pre[c].bound
            /\ resp[c].status = 500

\* An unsubscribe of a listed topic whose unbind failed has been answered.
C7_Witness ==
    \E c \in Callers, u \in UserIds, t \in Topics :
        /\ JustAnswered(c)
        /\ IsUnsubscribe(c, u, t)
        /\ failed[c] = "unbind"
        /\ pre[c].listed /\ pre[c].bound > 0

\* C8: a request whose broker call succeeded and whose commit failed is
\* answered with an error (not swallowed) of a kind that differs from the
\* kind answered when the broker call itself fails.
C8_PartialFailureDistinct ==
    \A c1, c2 \in Callers :
        ( /\ Done(c1) /\ failed[c1] = "commit_transaction"
          /\ Done(c2) /\ failed[c2] \in BrokerCalls ) =>
            /\ ~Success(c1)
            /\ ErrorKind(resp[c1]) # ErrorKind(resp[c2])

\* C9: a subscribe(u, t) repeated after a success, or after a failed commit
\* that followed a successful bind, and meeting no new failure, answers with
\* success and leaves t listed once for u and one binding of t.
C9_RetryConverges ==
    \A c1, c2 \in Callers, u \in UserIds, t \in Topics :
        ( /\ InSequence(c1, c2)
          /\ IsSubscribe(c1, u, t) /\ IsSubscribe(c2, u, t)
          /\ failed[c1] \in {"none", "commit_transaction"}
          /\ failed[c2] = "none" ) =>
            /\ Success(c2)
            /\ Listed(u, t)
            /\ SumOcc(docs[u], t) = 1
            /\ BindingCount(u, t) = 1

\* A subscribe has been repeated after its commit failed with the binding made.
C9_Witness ==
    \E c1, c2 \in Callers, u \in UserIds, t \in Topics :
        /\ InSequence(c1, c2)
        /\ IsSubscribe(c1, u, t) /\ IsSubscribe(c2, u, t)
        /\ failed[c1] = "commit_transaction"
        /\ pre[c2].bound = 1 /\ ~pre[c2].listed
        /\ failed[c2] = "none"
        /\ Success(c2)

\* C10: two overlapping subscribe(u, t) requests that meet no failure of the
\* registry or the broker are both answered without error, and leave one
\* occurrence of t for u in the registry and one binding of t.
C10_ConcurrentSubscribes ==
    \A c1, c2 \in Callers, u \in UserIds, t \in Topics :
        ( /\ c1 # c2
          /\ Quiescent /\ Done(c1) /\ Done(c2)
          /\ overlap[c1] /\ overlap[c2]
          /\ IsSubscribe(c1, u, t) /\ IsSubscribe(c2, u, t)
          /\ failed[c1] \in {"none", "WriteConflict"}
          /\ failed[c2] \in {"none", "WriteConflict"} ) =>
            /\ Success(c1) /\ Success(c2)
            /\ SumOcc(docs[u], t) = 1
            /\ BindingCount(u, t) = 1

\* c1 and c2 worked on the same user and topic at the same time: the later of
\* the two arrived while the earlier was still in progress.
Overlapped(c1, c2) ==
    /\ c1 # c2
    /\ Done(c1) /\ Done(c2)
    /\ req[c1].userid = req[c2].userid
    /\ req[c1].topic = req[c2].topic
    /\ overlap[c1] \/ overlap[c2]

\* C11: when two operations on the same user and topic overlap, each meeting
\* no failure of the registry or of the broker other than the write conflict
\* their own overlap causes, and the registry and the broker agreed on that
\* topic when each of them arrived, then once both have been answered the
\* topic is in the user's committed subscriptions if and only if the binding
\* of that routing key on the user's queue exists.
C11_OverlapConsistent ==
    \A c1, c2 \in Callers :
        ( /\ Quiescent
          /\ Overlapped(c1, c2)
          /\ \A c \in {c1, c2} :
                /\ failed[c] \in {"none", "WriteConflict"}
                /\ pre[c].listed <=> (pre[c].bound > 0) )
        => ( Listed(req[c1].userid, req[c1].topic)
             <=> (BindingCount(req[c1].userid, req[c1].topic) > 0) )

\* The calls of subscription_transaction that reach the registry or the broker
\* have been made once the coroutine stands after start_session.
AfterIO ==
    {"update_one", "declare_queue", "bind", "unbind", "commit_transaction"}

\* C12: a subscribe or unsubscribe that carries no userid header is rejected
\* before any registry or broker call: its coroutine never gets past the
\* validation, it is not answered with a success, and neither a document nor
\* a queue is ever made for the missing user id.
C12_MissingUserRejected ==
    /\ \A c \in Callers :
          (req[c] # NoReq /\ req[c].userid = None) =>
              /\ pc[c] \notin AfterIO
              /\ ~Success(c)
    /\ docs[None] = <<>>
    /\ queue_name(None) \notin queues

\* The failures of the registry step: the session or transaction cannot be
\* started, or update_one raises.
RegistryFailures == {"start_session", "update_one", "WriteConflict"}

\* C13: a coroutine makes no broker call before its registry mutation has
\* succeeded, and when the session cannot be started or the mutation fails,
\* every further step of that coroutine leaves the committed registry, the
\* queues and the bindings as they are, goes only to the abort and the
\* answer, and the answer is an error.
C13_RegistryFailureFirst ==
    [][\A c \in Callers :
          /\ (pc[c] \in {"start_session", "update_one"} /\ pc'[c] # pc[c])
                => UNCHANGED <<queues, bindings>>
          /\ (pc'[c] # pc[c] /\ failed'[c] \in RegistryFailures)
                => /\ pc'[c] \in {"abort_transaction", "done"}
                   /\ UNCHANGED <<docs, queues, bindings>>
                   /\ pc'[c] = "done" => resp'[c].status = 500]_vars

\* One request was answered after its update_one failed and another after its
\* session could not be started.
C13_Witness ==
    \E c1, c2 \in Callers :
        /\ Done(c1) /\ failed[c1] = "update_one" /\ resp[c1].status = 500
        /\ Done(c2) /\ failed[c2] = "start_session" /\ resp[c2].status = 500

\* The class of the failure a request met, as the four error kinds divide them.
FailureClass(c) ==
    CASE failed[c] \in RegistryFailures -> "registry"
      [] failed[c] \in BrokerCalls -> "broker"
      [] failed[c] = "commit_transaction" -> "commit"
      [] OTHER -> "none"

\* C14: every answered request, served after the others, either succeeded
\* with a message that tells a real change of the user's committed
\* subscriptions (Added, Removed) from no change (the no-op message), or
\* failed with an error, and two requests that failed in different classes
\* of failure were answered with different error kinds.
C14_OutcomeDistinguishable ==
    /\ \A c \in Callers :
          (JustAnswered(c) /\ Success(c)) =>
              LET u == req[c].userid
                  t == req[c].topic
              IN resp[c].body =
                    IF Listed(u, t) = pre[c].listed THEN NoUpdates
                    ELSE IF req[c].op = add_subscription THEN Added ELSE Removed
    /\ \A c \in Callers : Done(c) => (Success(c) <=> failed[c] = "none")
    /\ \A c1, c2 \in Callers :
          ( /\ Done(c1) /\ Done(c2)
            /\ ~Success(c1) /\ ~Success(c2)
            /\ FailureClass(c1) # FailureClass(c2) ) =>
              ErrorKind(resp[c1]) # ErrorKind(resp[c2])

\* C15: every call of change_detection_subscriptions.add_subscription in
\* which a step of the protocol failed ended with an error raised to its
\* caller, not with a normal return.
C15_NoSilentFailure ==
    \A i \in 1..Len(cdLog) :
        cdLog[i].failed \in Range(cd_steps) => cdLog[i].returned = "raised"

\* c's request asks for what the registry already says: a subscribe of a
\* listed topic or an unsubscribe of a topic that is not listed.
NoOpRequest(c, userid, topic) ==
    \/ IsSubscribe(c, userid, topic) /\ pre[c].listed
    \/ IsUnsubscribe(c, userid, topic) /\ ~pre[c].listed

\* When c's request arrived the user had a document and a queue, and the
\* broker agreed with the registry on the topic.
KnownAndConsistent(c) ==
    /\ pre[c].rec > 0
    /\ pre[c].queue
    /\ pre[c].listed <=> (pre[c].bound > 0)

\* C16 as stated: a subscribe of a topic already subscribed, or an
\* unsubscribe of a topic not subscribed (also for a user never seen), served
\* without failure after the others, answers the no-op message and leaves
\* the user's documents, queue and binding as they were.
C16_NoOpChangesNothing ==
    \A c \in Callers, u \in UserIds, t \in Topics :
        ( /\ JustAnswered(c)
          /\ failed[c] = "none"
          /\ NoOpRequest(c, u, t) ) =>
            /\ resp[c] = Ok("No updates made.")
            /\ View(u, t) = pre[c]

\* C16 amended: the same requests answer the no-op message; they leave the
\* user's documents, queue and binding as they were when the user had a
\* document and a queue and the broker agreed with the registry on the
\* topic; for a user never seen, the unsubscribe makes one document with no
\* topic and declares the queue, and changes nothing else.
C16_NoOpKnownUser ==
    \A c \in Callers, u \in UserIds, t \in Topics :
        ( /\ JustAnswered(c)
          /\ failed[c] = "none"
          /\ NoOpRequest(c, u, t) ) =>
            /\ resp[c] = Ok("No updates made.")
            /\ KnownAndConsistent(c) => View(u, t) = pre[c]
            /\ (pre[c].rec = 0 /\ ~pre[c].queue /\ pre[c].bound = 0) =>
                  View(u, t) = [pre[c] EXCEPT !.rec = 1, !.queue = TRUE]

\* A subscribe of a topic that was listed and bound has been answered.
C16_Witness ==
    \E c \in Callers, u \in UserIds, t \in Topics :
        /\ JustAnswered(c)
        /\ IsSubscribe(c, u, t)
        /\ failed[c] = "none"
        /\ pre[c].listed /\ pre[c].bound > 0
        /\ resp[c] = Ok("No updates made.")

\* C17: every step in which the exchange accepts a message or a message
\* route answers leaves the registry, the open transactions, the queues and
\* the bindings as they are; it either adds exactly one persistent message
\* to what the exchange has accepted and answers 200, or adds none and
\* answers with an error.
C17_PublishNeutral ==
    [][(published' # published \/ msgResp' # msgResp) =>
          /\ UNCHANGED <<docs, txn, queues, bindings>>
          /\ \/ /\ \E k \in RoutingKeys :
                      published' =
                          Append(published,
                                 [routing_key |-> k,
                                  message |-> [delivery_mode |-> "PERSISTENT"]])
                /\ msgResp'.status = 200
             \/ /\ published' = published
                /\ msgResp'.status = 500]_vars

\* A message was accepted and routed to a bound queue of a user whose
\* subscription is committed, and the route answered 200.
C17_Witness ==
    /\ msgResp.status = 200
    /\ \E u \in UserIds, t \in Topics :
          /\ Listed(u, t)
          /\ BindingCount(u, t) > 0
          /\ queued[queue_name(u)] = <<routing_key(t)>>
          /\ published = <<[routing_key |-> routing_key(t), message |-> Message]>>

\* Number of broadcast messages among routing keys.
Broadcasts(keys) == Count(keys, RABBITMQ_BROADCAST_KEY)

\* C18: the queue of a user whose subscribe or unsubscribe succeeded is bound
\* to the broadcast routing key, and the queue of a user who had one from the
\* start holds every broadcast the exchange has accepted.
C18_BroadcastReachesAll ==
    /\ \A c \in Callers :
          (Done(c) /\ Success(c)) =>
              bindings[<<queue_name(req[c].userid), RABBITMQ_BROADCAST_KEY>>] > 0
    /\ \A u \in KnownUsers :
          Broadcasts(queued[queue_name(u)])
              = Broadcasts([i \in 1..Len(published) |-> published[i].routing_key])

\* C19: with requests served one after the other, no step removes a document
\* of any user; a successful subscribe or unsubscribe leaves the user with a
\* document; the first successful subscribe of a user without a document
\* makes exactly one, holding the topic; and a successful unsubscribe of the
\* only listed topic leaves the same number of documents, the first with an
\* empty array.
C19_RecordLifecycle ==
    [][/\ \A u \in UserIds : Len(docs'[u]) >= Len(docs[u])
       /\ \A c \in Callers :
             (pc[c] # "done" /\ pc'[c] = "done" /\ resp'[c].status = 200) =>
                 LET u == req[c].userid
                     t == req[c].topic
                 IN /\ docs'[u] # <<>>
                    /\ (req[c].op = add_subscription /\ pre[c].rec = 0) =>
                          docs'[u] = <<[has |-> TRUE, subs |-> <<t>>]>>
                    /\ ( /\ req[c].op = delete_subscription
                         /\ pre[c].listed
                         /\ pre[c].topics = 1 ) =>
                          /\ Len(docs'[u]) = pre[c].rec
                          /\ docs'[u][1] = [has |-> TRUE, subs |-> <<>>]]_vars

\* An unsubscribe of the only topic of a user has succeeded and the user's
\* document is still there, with an empty array.
C19_Witness ==
    \E c \in Callers, u \in UserIds, t \in Topics :
        /\ JustAnswered(c)
        /\ IsUnsubscribe(c, u, t)
        /\ Success(c)
        /\ pre[c].listed /\ pre[c].topics = 1
        /\ docs[u] = <<[has |-> TRUE, subs |-> <<>>]>>

\* No subscribe or unsubscribe has been made for the user and topic: each
\* coroutine has served at most one request, and none of them was for this
\* pair.
Untouched(userid, topic) ==
    /\ Cardinality({c \in Callers : req[c] # NoReq}) = nreq
    /\ \A c \in Callers : req[c].userid # userid \/ req[c].topic # topic

\* C20: two requests answered with success for different user ids used
\* different queues, and a pair of a user id sent in a header and a topic
\* that no subscribe or unsubscribe was made for is as it was at the start,
\* whatever was done for other pairs: the topic is not in the user's
\* documents and its routing key is not bound on the user's queue.
C20_OtherPairsUntouched ==
    /\ \A c1, c2 \in Callers :
          ( /\ Done(c1) /\ Success(c1)
            /\ Done(c2) /\ Success(c2)
            /\ req[c1].userid # req[c2].userid ) =>
              queue_name(req[c1].userid) # queue_name(req[c2].userid)
    /\ \A u \in HeaderValues \ {None}, t \in Topics :
          Untouched(u, t) =>
              /\ SumOcc(docs[u], t) = 0
              /\ BindingCount(u, t) = 0

\* The same for user ids that are texts other than None, step by step and
\* under any interleaving: every step of a coroutine serving a subscribe or
\* unsubscribe of (u, t) leaves as they are, for every other pair, whether
\* the topic is listed, how often it occurs in the user's documents, and the
\* binding of its routing key on the user's queue.
OtherPairsUnchanged ==
    [][/\ \A u1, u2 \in UserIds : u1 # u2 => queue_name(u1) # queue_name(u2)
       /\ \A c \in Callers :
             (pc'[c] # pc[c] /\ (docs' # docs \/ bindings' # bindings)) =>
                 \A u \in UserIds, t \in Topics :
                     (u # req'[c].userid \/ t # req'[c].topic) =>
                         /\ Listed(u, t)' = Listed(u, t)
                         /\ SumOcc(docs[u], t)' = SumOcc(docs[u], t)
                         /\ BindingCount(u, t)' = BindingCount(u, t)]_vars

\* The committed topic set of the documents a query read: empty without a
\* document.
CommittedTopics(read) ==
    IF read = <<>> \/ ~read[1].has THEN {} ELSE Range(read[1].subs)

\* C21: whenever get_subscriptions(u) was answered without a failure of the
\* registry itself, the answer is a success carrying a set of topics, and
\* that set is exactly the committed topic set of u that the query read: the
\* empty set when u has no topics or no record.
C21_QueryReturnsCommitted ==
    (getResp.json # "none" /\ getResp.raised # "find") =>
        /\ getResp.status = 200
        /\ getResp.json = "array"
        /\ Range(getResp.topics) = CommittedTopics(getResp.read)

\* The step is a bind or unbind call issued by c.
BindingCall(c) == session'[c].binding > session[c].binding

\* The step is the commit of c's transaction.
CommitCall(c) == session'[c].commits > session[c].commits

\* C22: every bind or unbind call is made after the request's update_one has
\* returned without failing and while its transaction is open and not yet
\* committed; a transaction is committed only after the bind or unbind call
\* of its request has succeeded; the bindings change only in such a broker
\* call and the committed registry changes only in such a commit.
C22_ProtocolOrdering ==
    [][/\ \A c \in Callers :
             /\ BindingCall(c) =>
                   /\ session[c].update_one = 1
                   /\ failed[c] = "none"
                   /\ session[c].state = "open" /\ session'[c].state = "open"
                   /\ session[c].commits = 0
                   /\ UNCHANGED docs
             /\ CommitCall(c) =>
                   /\ session[c].succeeded = 1
                   /\ session[c].update_one = 1
                   /\ failed[c] = "none"
       /\ bindings' # bindings => \E c \in Callers : BindingCall(c)
       /\ docs' # docs => \E c \in Callers : CommitCall(c)]_vars

\* A subscribe was answered with success after its bind call succeeded and
\* its transaction was committed with the topic.
C22_Witness ==
    \E c \in Callers :
        /\ Done(c) /\ Success(c)
        /\ req[c].op = add_subscription
        /\ session[c].succeeded = 1
        /\ session[c].commits = 1
        /\ Listed(req[c].userid, req[c].topic)
        /\ bindings[<<queue_name(req[c].userid), routing_key(req[c].topic)>>] = 1

\* The transaction of c's request has been ended by exactly one commit or
\* exactly one abort.
Ended(c) ==
    /\ session[c].state \in {"committed", "aborted"}
    /\ session[c].commits + session[c].aborts = 1

C24_NoRetry ==
    \A c \in Callers :
        LET s == session[c] IN
        /\ s.update_one <= 1 /\ s.declare_queue <= 1 /\ s.binding <= 1
        /\ s.commits + s.aborts <= 1
        /\ failed[c] # "none" =>
              /\ pc[c] \in {"abort_transaction", "done"}
              /\ Done(c) => resp[c].status = 500
              /\ failed[c] # "commit_transaction" =>
                    s.succeeded = 0 /\ s.commits = 0
        /\ failed[c] = "start_session" =>
              s.update_one + s.declare_queue + s.binding = 0
        /\ failed[c] \in {"update_one", "WriteConflict"} =>
              s.update_one = 1 /\ s.declare_queue + s.binding = 0
        /\ failed[c] = "declare_queue" => s.declare_queue = 1 /\ s.binding = 0
        /\ failed[c] \in {"bind", "unbind"} => s.binding = 1

\* A request was answered with an error after its single update_one met a
\* write conflict with the open transaction of another request.
C24_Witness ==
    \E c \in Callers :
        /\ Done(c)
        /\ failed[c] = "WriteConflict"
        /\ session[c].update_one = 1
        /\ session[c].aborts = 1
        /\ resp[c].status = 500

\* C25: once startup has ended without a failure of the broker connection,
\* the application is serving and the topic exchange exists, whether or not
\* the exchange existed when the service was started.
C25_ExchangeAfterStartup ==
    (boot.app # "starting" /\ boot.raised # "AMQPConnectionError") =>
        (boot.app = "serving" /\ boot.exchange)

\* C26: a message accepted while no request was in progress and registry and
\* broker agreed was routed to exactly the queues of the users whose
\* committed subscriptions held its topic, whatever the topic string.
C26_RoutingExact ==
    (routed.key # "" /\ routed.settled) => routed.to = routed.subscribers

\* c's request was an unsubscribe for a user who had no document and no
\* queue, served after the others and without a failing call.
UnsubscribeUnknown(c, userid, topic) ==
    /\ JustAnswered(c)
    /\ IsUnsubscribe(c, userid, topic)
    /\ failed[c] = "none"
    /\ pre[c].rec = 0
    /\ ~pre[c].queue

\* C27: an unsubscribe for a user with no document and no queue is answered
\* with success and the no-op message; afterwards the user has exactly one
\* document, which holds no topic, and a declared queue; the queue has no
\* binding for any topic and the binding of the topic asked for is as it was.
C27_UnsubscribeUnknownUser ==
    \A c \in Callers, u \in UserIds, t \in Topics :
        UnsubscribeUnknown(c, u, t) =>
            /\ resp[c] = Ok("No updates made.")
            /\ Len(docs[u]) = 1
            /\ TopicCount(u) = 0
            /\ queue_name(u) \in queues
            /\ \A t2 \in Topics : ~Listed(u, t2) /\ BindingCount(u, t2) = 0
            /\ View(u, t).bound = pre[c].bound

\* Such an unsubscribe has been answered and has left the document and the
\* queue behind.
C27_Witness ==
    \E c \in Callers, u \in UserIds, t \in Topics :
        /\ UnsubscribeUnknown(c, u, t)
        /\ Success(c)
        /\ Len(docs[u]) = 1
        /\ queue_name(u) \in queues

\* C28: the graph holds at most one node with a given label and name, and a
\* create_node that was answered after finding a node with its label and
\* name was answered 400 after its one query.
C28_NodeUnique ==
    /\ \A n, m \in graph.nodes :
          (n.label = m.label /\ n.name = m.name) => n = m
    /\ \A c \in GraphCallers :
          ( /\ gcall[c].route = "create_node"
            /\ gcall[c].pc = "done"
            /\ gcall[c].status \in {200, 400} ) =>
              (gcall[c].status = 400 <=> gcall[c].queries <= 1)

GraphUpdateRoutes ==
    {"update_node_by_label_name", "update_node_by_uuid", "update_relationship_by_uuid"}

\* C29: every node and every relationship in the graph carries the uuid it
\* was given when it was made, and an update that names the key uuid was
\* answered 400 without a query.
C29_UuidImmutable ==
    /\ \A n \in graph.nodes : n.uuid = n.assigned
    /\ \A r \in graph.rels : r.uuid = r.assigned
    /\ \A c \in GraphCallers :
          ( /\ gcall[c].route \in GraphUpdateRoutes
            /\ gcall[c].pc = "done"
            /\ gcall[c].key = "uuid" ) =>
              (gcall[c].status = 400 /\ gcall[c].queries = 0)

\* The routes that take a label in their path.
LabelRoutes ==
    {"get_one_node_by_label", "get_all_nodes_by_label", "create_node",
     "update_node_by_label_name", "delete_node", "get_node_relationships"}

\* Both labels of the request are allowed and its type is listed for the pair
\* of labels.
AllowedPair(call) ==
    /\ call.label \in ALLOWED_LABELS
    /\ call.target_label \in ALLOWED_LABELS
    /\ call.target_label \in DOMAIN ALLOWED_LABELS_AND_TYPES[call.label]
    /\ call.type \in ALLOWED_LABELS_AND_TYPES[call.label][call.target_label]

\* C30: a step in which a label-addressed route is called with a label that
\* is not allowed answers 400 at once, sends no query and leaves the graph
\* as it is; and a create_relationship request that gets as far as a query
\* has two allowed labels and a type listed for that pair.
C30_LabelAllowList ==
    [][\A c \in GraphCallers :
          gcall'[c] # gcall[c] =>
              /\ ( /\ gcall'[c].route \in LabelRoutes
                   /\ gcall'[c].label \notin ALLOWED_LABELS ) =>
                     /\ gcall'[c].pc = "done"
                     /\ gcall'[c].status = 400
                     /\ gcall'[c].queries = 0
                     /\ UNCHANGED graph
              /\ ( /\ gcall'[c].route = "create_relationship"
                   /\ gcall'[c].queries > 0 ) => AllowedPair(gcall'[c])]_vars

\* A delete_node with a label that is not allowed was answered 400 and a
\* create_relationship between two allowed labels was answered with success.
C30_Witness ==
    \E c, d \in GraphCallers :
        /\ gcall[c].route = "delete_node"
        /\ gcall[c].label \notin ALLOWED_LABELS
        /\ gcall[c].status = 400
        /\ gcall[d].route = "create_relationship"
        /\ gcall[d].status = 200
        /\ graph.rels # {}

====
